---- MODULE Spec2Model ----
(***************************************************************************)
(* Model of the SGPA & CGPA dashboard script (src/Graphs.py).  One run of  *)
(* the script is one render cycle: input stage (lines 55-86), semester     *)
(* ordering (91-98), view dispatch (189-207), metrics expander (213-240).  *)
(* A change of a sidebar widget starts a new run from the top.             *)
(*                                                                         *)
(* Text is a sequence of one-character strings.  Grade points are integers *)
(* in hundredths (835 stands for 8.35).  A 64-bit integer is kept as its   *)
(* decimal numeral without leading zeros, compared by length and then      *)
(* digit by digit, so that values beyond the range of the checker's own    *)
(* integers are still exact.                                               *)
(***************************************************************************)
EXTENDS Integers, Sequences, FiniteSets, TLC

VARIABLES
    build,        \* how the installed sort orders rows with equal keys
    uploaded_file,\* the file uploader widget's value
    view_option,  \* the "Select View" widget's value
    pc,           \* position of the current run of the script
    data,         \* the script's DataFrame
    stages,       \* the stages the current run has executed
    errors,       \* messages surfaced by st.sidebar.error in this run
    fault,        \* the exception that ended this run uncaught, if any
    directives,   \* what the view dispatch handed to the renderer in this run
    metrics,      \* what the Metrics expander computed in this run
    memo          \* observer's record of one completed earlier run

vars == <<build, uploaded_file, view_option, pc, data, stages, errors, fault,
          directives, metrics, memo>>

cycle == <<pc, data, stages, errors, fault, directives, metrics>>

-----------------------------------------------------------------------------
(* Bounds of the model *)

MaxRows == 3

MaxRowsH == 2

-----------------------------------------------------------------------------
(* Text *)

Digits == {"0", "1", "2", "3", "4", "5", "6", "7", "8", "9"}

IsDigit(c) == c \in Digits

DigitChar(d) ==
    CASE d = 0 -> "0" [] d = 1 -> "1" [] d = 2 -> "2" [] d = 3 -> "3"
      [] d = 4 -> "4" [] d = 5 -> "5" [] d = 6 -> "6" [] d = 7 -> "7"
      [] d = 8 -> "8" [] d = 9 -> "9"

DigitVal(c) == CHOOSE d \in 0..9 : DigitChar(d) = c

\* str(n) of a non-negative integer
RECURSIVE Str(_)
Str(n) == IF n < 10 THEN <<DigitChar(n)>> ELSE Append(Str(n \div 10), DigitChar(n % 10))

RECURSIVE SkipNonDigits(_)
SkipNonDigits(s) ==
    IF s = <<>> \/ IsDigit(Head(s)) THEN s ELSE SkipNonDigits(Tail(s))

RECURSIVE TakeDigits(_)
TakeDigits(s) ==
    IF s = <<>> \/ ~IsDigit(Head(s)) THEN <<>> ELSE <<Head(s)>> \o TakeDigits(Tail(s))

\* Series.str.extract(r"(\d+)") on one cell: the first run of digits;
\* the empty text stands for NaN (no match)
StrExtract(s) == TakeDigits(SkipNonDigits(s))

NaN == <<>>

RECURSIVE StripZeros(_)
StripZeros(s) ==
    IF Len(s) > 1 /\ Head(s) = "0" THEN StripZeros(Tail(s)) ELSE s

RECURSIVE LexLess(_, _)
LexLess(a, b) ==
    /\ a # <<>>
    /\ \/ DigitVal(Head(a)) < DigitVal(Head(b))
       \/ Head(a) = Head(b) /\ LexLess(Tail(a), Tail(b))

\* a < b for two numerals without leading zeros
NumLess(a, b) ==
    \/ Len(a) < Len(b)
    \/ Len(a) = Len(b) /\ LexLess(a, b)

\* 2^63 - 1, the largest value of the integer dtype astype(int) converts to;
\* a longer digit run raises OverflowError, an Exception like the NaN case
Int64Max ==
    <<"9","2","2","3","3","7","2","0","3","6","8","5","4","7","7","5","8","0","7">>

\* int(text) of a digit run
IntOf(run) == StripZeros(run)

\* whether converting one extracted cell to the integer dtype raises
CastRaises(run) == run = NaN \/ NumLess(Int64Max, IntOf(run))

\* variant: cells without a digit run count as 0 instead of raising
AsTypeIntFillNa(col) ==
    IF \E i \in 1..Len(col) : col[i] # NaN /\ CastRaises(col[i])
    THEN [ok |-> FALSE, values |-> <<>>]
    ELSE [ok |-> TRUE,
          values |-> [i \in 1..Len(col) |-> IF col[i] = NaN THEN <<"0">> ELSE IntOf(col[i])]]

\* DataFrame.astype(int) on the extracted column; raises as a whole
AsTypeInt(col) ==
    IF \E i \in 1..Len(col) : CastRaises(col[i])
    THEN [ok |-> FALSE, values |-> <<>>]
    ELSE [ok |-> TRUE, values |-> [i \in 1..Len(col) |-> IntOf(col[i])]]

-----------------------------------------------------------------------------
(* Sorting *)

\* sort_values is called without kind=, so it sorts with "quicksort", which is
\* not stable: where rows of equal key end up depends on the installed
\* numpy.  A build is one fixed policy; two are modelled.
TiePolicies == {"input_order", "reversed"}

\* whether the row with key k, met later in the input, goes before the
\* already placed row with key p
GoesBefore(k, p, tie) == NumLess(k, p) \/ (k = p /\ tie = "reversed")

RECURSIVE InsertIndex(_, _, _, _)
InsertIndex(perm, i, keys, tie) ==
    IF perm = <<>> THEN <<i>>
    ELSE IF GoesBefore(keys[i], keys[Head(perm)], tie)
         THEN <<i>> \o perm
         ELSE <<Head(perm)>> \o InsertIndex(Tail(perm), i, keys, tie)

RECURSIVE ArgSortUpTo(_, _, _)
ArgSortUpTo(n, keys, tie) ==
    IF n = 0 THEN <<>>
    ELSE InsertIndex(ArgSortUpTo(n - 1, keys, tie), n, keys, tie)

\* variant: one row per key, as an ordering kept in a map by SemIndex would give
ArgSortOnePerKey(keys, tie) ==
    LET perm == ArgSortUpTo(Len(keys), keys, tie)
        keep == {k \in 1..Len(perm) : \A j \in 1..(k - 1) : keys[perm[j]] # keys[perm[k]]}
        Nth[k \in 0..Len(perm)] ==
            IF k = 0 THEN <<>>
            ELSE IF k \in keep THEN Append(Nth[k - 1], perm[k]) ELSE Nth[k - 1]
    IN  Nth[Len(perm)]

\* the permutation sort_values(by="SemIndex") applies (kind="quicksort":
\* ascending by key, order among equal keys left to the build)
ArgSort(keys, tie) == ArgSortUpTo(Len(keys), keys, tie)

-----------------------------------------------------------------------------
(* DataFrame: column names and rows of cells aligned with them *)

ColIndex(columns, name) == CHOOSE j \in 1..Len(columns) : columns[j] = name

HasColumn(columns, name) == \E j \in 1..Len(columns) : columns[j] = name

Cell(df, i, name) == df.rows[i][ColIndex(df.columns, name)]

Column(df, name) == [i \in 1..Len(df.rows) |-> Cell(df, i, name)]

SetColumn(df, name, col) ==
    IF HasColumn(df.columns, name)
    THEN [df EXCEPT !.rows = [i \in 1..Len(df.rows) |->
              [df.rows[i] EXCEPT ![ColIndex(df.columns, name)] = col[i]]]]
    ELSE [df EXCEPT !.columns = Append(df.columns, name),
                    !.rows = [i \in 1..Len(df.rows) |-> Append(df.rows[i], col[i])]]

RemoveAt(s, j) == [k \in 1..(Len(s) - 1) |-> IF k < j THEN s[k] ELSE s[k + 1]]

DropColumn(df, name) ==
    [df EXCEPT !.columns = RemoveAt(df.columns, ColIndex(df.columns, name)),
               !.rows = [i \in 1..Len(df.rows) |->
                            RemoveAt(df.rows[i], ColIndex(df.columns, name))]]

\* rows taken in the order perm, each with its index label
TakeRows(df, perm) ==
    [df EXCEPT !.rows = [k \in 1..Len(perm) |-> df.rows[perm[k]]],
               !.index = [k \in 1..Len(perm) |-> df.index[perm[k]]]]

\* reset_index(drop=True): labels 0..n-1 in row order
ResetIndex(df) == [df EXCEPT !.index = [k \in 1..Len(df.rows) |-> k - 1]]

\* df[[...]]: the named columns, in the order asked
Select(df, names) ==
    [df EXCEPT !.columns = names,
               !.rows = [i \in 1..Len(df.rows) |->
                            [j \in 1..Len(names) |-> Cell(df, i, names[j])]]]

\* the name data before any assignment of the current run
Unbound == [columns |-> <<>>, index |-> <<>>, rows |-> <<>>]

-----------------------------------------------------------------------------
(* Input domain: what the file uploader can hold *)

Sem(n) == <<"S", "e", "m", " ">> \o Str(n)

SemBig == <<"S", "e", "m", " ">> \o [k \in 1..19 |-> "9"]

\* a Semester cell as read_csv delivers it: text ...
SemesterCells ==
    {[txt |-> Sem(1)], [txt |-> Sem(2)], [txt |-> Sem(10)], [txt |-> <<"X">>],
     [txt |-> SemBig]}

\* ... or, from a column of bare numbers, an integer
NumericCells == {[num |-> 3], [num |-> 12]}

\* (SGPA, CGPA) of a row, in hundredths
Grades == {<<800, 835>>, <<900, 0>>}

CsvRows == {<<c, g[1], g[2]>> : c \in SemesterCells, g \in Grades}

NumericRows == {<<c, g[1], g[2]>> : c \in NumericCells \cup {[txt |-> Sem(2)]}, g \in Grades}

RECURSIVE SeqsUpTo(_, _)
SeqsUpTo(S, n) ==
    IF n = 0 THEN {<<>>}
    ELSE LET shorter == SeqsUpTo(S, n - 1)
         IN  shorter \cup {Append(s, x) : s \in {t \in shorter : Len(t) = n - 1}, x \in S}

RequiredHeader == <<"Semester", "SGPA", "CGPA">>

Csv(header, rows) == [kind |-> "csv", header |-> header, rows |-> rows]

NoFile == [kind |-> "none", header |-> <<>>, rows |-> <<>>]

Malformed == [kind |-> "malformed", header |-> <<>>, rows |-> <<>>]

\* headers that lack a required column (absent, or spelled in another case)
BadHeaders ==
    {<<"Semester", "SGPA">>, <<"semester", "SGPA", "CGPA">>,
     <<"Semester", "Sgpa", "CGPA">>, <<"Semester", "SGPA", "cgpa">>}

FitHeader(header, row) ==
    [j \in 1..Len(header) |-> IF j <= Len(row) THEN row[j] ELSE 4]

\* parseable tables with the three required columns
GoodFiles(n) == {Csv(RequiredHeader, rows) : rows \in SeqsUpTo(CsvRows, n)}

\* tables whose Semester column holds numbers
NumericFiles == {Csv(RequiredHeader, <<r1, r2>>) : r1 \in NumericRows, r2 \in NumericRows}

\* parseable tables with one more column than required
WideFiles(n) ==
    {Csv(Append(RequiredHeader, "Credits"),
         [i \in 1..Len(rows) |-> Append(rows[i], 4)]) : rows \in SeqsUpTo(CsvRows, n)}

\* parseable tables that fail the schema check
BadFiles(n) ==
    {Csv(h, [i \in 1..Len(rows) |-> FitHeader(h, rows[i])]) :
        h \in BadHeaders, rows \in SeqsUpTo(CsvRows, n)}

Files ==
    GoodFiles(MaxRows) \cup NumericFiles \cup WideFiles(1) \cup BadFiles(1) \cup {Malformed}

ViewOptions == {"Combined", "Only SGPA", "Only CGPA", "Data Table"}

-----------------------------------------------------------------------------
(* Input stage (lines 55-86) *)

RequiredCols == {"Semester", "SGPA", "CGPA"}

\* pd.read_csv: a DataFrame with a fresh 0..n-1 index, or an exception
ReadCsv(file) ==
    IF file.kind = "csv"
    THEN [ok |-> TRUE,
          df |-> [columns |-> file.header,
                  index |-> [i \in 1..Len(file.rows) |-> i - 1],
                  rows |-> file.rows]]
    ELSE [ok |-> FALSE, df |-> Unbound]

\* variant: the check forgets CGPA
SchemaOkWithoutCgpa(columns) ==
    {"Semester", "SGPA"} \subseteq {columns[j] : j \in 1..Len(columns)}

\* required_cols.issubset(set(data.columns))
SchemaOk(columns) == RequiredCols \subseteq {columns[j] : j \in 1..Len(columns)}

\* str(x) of one Semester cell
CellToStr(c) == IF "num" \in DOMAIN c THEN Str(c.num) ELSE c.txt

\* data["Semester"] = data["Semester"].astype(str)
CoerceSemester(df) ==
    SetColumn(df, "Semester",
              [i \in 1..Len(df.rows) |-> CellToStr(Cell(df, i, "Semester"))])

SampleData ==
    [columns |-> RequiredHeader,
     index |-> [i \in 1..8 |-> i - 1],
     rows |-> << <<Sem(1), 835, 835>>, <<Sem(2), 803, 819>>, <<Sem(3), 734, 791>>,
                 <<Sem(4), 829, 801>>, <<Sem(5), 790, 799>>, <<Sem(6), 795, 798>>,
                 <<Sem(7), 870, 810>>, <<Sem(8), 833, 813>> >>]

SchemaMessage == "Uploaded CSV must contain the columns: 'Semester', 'SGPA', 'CGPA'."

ParseMessage == "Error reading CSV"

\* Lines 55-86 as a whole.  st.stop() ends the run by an exception that is
\* not an Exception, so the handler of line 67 does not see the stop of
\* line 64.
InputStage(file) ==
    IF file.kind = "none"
    THEN [stop |-> FALSE, data |-> SampleData, errors |-> <<>>,
          stages |-> {"sample"}]
    ELSE LET read == ReadCsv(file)
         IN  IF ~read.ok
             THEN [stop |-> TRUE, data |-> Unbound, errors |-> <<ParseMessage>>,
                   stages |-> {"read_csv"}]
             ELSE IF ~SchemaOk(read.df.columns)
             THEN [stop |-> TRUE, data |-> read.df, errors |-> <<SchemaMessage>>,
                   stages |-> {"read_csv", "schema"}]
             ELSE [stop |-> FALSE, data |-> CoerceSemester(read.df),
                   errors |-> <<>>, stages |-> {"read_csv", "schema", "coerce"}]

-----------------------------------------------------------------------------
(* Semester ordering (lines 91-98) *)

\* data["Semester"].str.extract(r"(\d+)")
ExtractColumn(df) ==
    [i \in 1..Len(df.rows) |-> StrExtract(Cell(df, i, "Semester"))]

\* lines 94-95 once SemIndex is set
SortBySemIndex(df, tie) ==
    ResetIndex(DropColumn(TakeRows(df, ArgSort(Column(df, "SemIndex"), tie)),
                          "SemIndex"))

\* the try block; an exception of line 93 leaves data as it was
OrderStage(df, tie) ==
    LET cast == AsTypeInt(ExtractColumn(df))
    IN  IF cast.ok
        THEN SortBySemIndex(SetColumn(df, "SemIndex", cast.values), tie)
        ELSE df

-----------------------------------------------------------------------------
(* View dispatch (lines 189-207) *)

\* plot_combined: four layers over the frame, y scale resolved as shared
PlotCombined(df) ==
    [layers |-> << <<"area", "SGPA">>, <<"area", "CGPA">>,
                   <<"line", "SGPA">>, <<"line", "CGPA">> >>,
     x |-> "Semester", y_scale |-> "shared", frame |-> df]

\* plot_single_metric: one line of the metric over the frame
PlotSingleMetric(df, metric) ==
    [layers |-> << <<"line", metric>> >>,
     x |-> "Semester", y_scale |-> "own", frame |-> df]

\* st.dataframe(data[["Semester", "SGPA", "CGPA"]])
RawTable(df) ==
    [layers |-> <<>>, x |-> "", y_scale |-> "none", frame |-> Select(df, RequiredHeader)]

Directive(call, subheader, what) ==
    [call |-> call, subheader |-> subheader, what |-> what]

\* variant: the table is drawn under every chart as well
ViewDispatchAlsoTable(view, df) ==
    (CASE view = "Combined" ->
            <<Directive("altair_chart", "Combined SGPA & CGPA Progression", PlotCombined(df))>>
       [] view = "Only SGPA" ->
            <<Directive("altair_chart", "SGPA Progression", PlotSingleMetric(df, "SGPA"))>>
       [] view = "Only CGPA" ->
            <<Directive("altair_chart", "CGPA Progression", PlotSingleMetric(df, "CGPA"))>>
       [] OTHER -> <<>>)
    \o <<Directive("dataframe", "Raw Data Table", RawTable(df))>>

\* the if/elif chain: the calls made on the renderer, in order
ViewDispatch(view, df) ==
    CASE view = "Combined" ->
           <<Directive("altair_chart", "Combined SGPA & CGPA Progression", PlotCombined(df))>>
      [] view = "Only SGPA" ->
           <<Directive("altair_chart", "SGPA Progression", PlotSingleMetric(df, "SGPA"))>>
      [] view = "Only CGPA" ->
           <<Directive("altair_chart", "CGPA Progression", PlotSingleMetric(df, "CGPA"))>>
      [] view = "Data Table" ->
           <<Directive("dataframe", "Raw Data Table", RawTable(df))>>
      [] OTHER -> <<>>

-----------------------------------------------------------------------------
(* Metrics expander (lines 213-240) *)

RECURSIVE SeqMax(_)
SeqMax(s) ==
    IF Len(s) = 1 THEN s[1]
    ELSE LET m == SeqMax(Tail(s)) IN IF s[1] >= m THEN s[1] ELSE m

RECURSIVE SeqMin(_)
SeqMin(s) ==
    IF Len(s) = 1 THEN s[1]
    ELSE LET m == SeqMin(Tail(s)) IN IF s[1] <= m THEN s[1] ELSE m

RECURSIVE SeqSum(_)
SeqSum(s) == IF s = <<>> THEN 0 ELSE s[1] + SeqSum(Tail(s))

\* variant: the last position holding v
LastPos(s, v) == CHOOSE i \in 1..Len(s) : s[i] = v /\ \A j \in (i + 1)..Len(s) : s[j] # v

\* the first position holding v
FirstPos(s, v) == CHOOSE i \in 1..Len(s) : s[i] = v /\ \A j \in 1..(i - 1) : s[j] # v

\* Series.idxmax(): the index label of the first row holding the maximum
IdxMax(df, name) == df.index[FirstPos(Column(df, name), SeqMax(Column(df, name)))]

\* Series.idxmin()
IdxMin(df, name) == df.index[FirstPos(Column(df, name), SeqMin(Column(df, name)))]

\* data.loc[label, name]
Loc(df, label, name) == Cell(df, FirstPos(df.index, label), name)

\* Series.iloc[-1]
ILocLast(df, name) == Cell(df, Len(df.rows), name)

NoMetrics ==
    [computed |-> FALSE, max_sgpa |-> <<0, <<>>>>, min_sgpa |-> <<0, <<>>>>,
     avg_sgpa |-> <<0, 1>>, final_cgpa |-> <<0, <<>>>>]

\* variant: the last row with a positive CGPA, or (0, "N/A")
FinalCgpaLastNonzero(df) ==
    LET pos == {i \in 1..Len(df.rows) : Cell(df, i, "CGPA") > 0}
    IN  IF pos = {} THEN <<0, <<"N", "/", "A">>>>
        ELSE LET n == CHOOSE i \in pos : \A j \in pos : j <= i
             IN  <<Cell(df, n, "CGPA"), Cell(df, n, "Semester")>>

\* lines 229-231
FinalCgpa(df) == <<ILocLast(df, "CGPA"), ILocLast(df, "Semester")>>

\* lines 217-231 on a frame with rows; the mean is kept as (sum, count)
ComputeMetrics(df) ==
    [computed |-> TRUE,
     max_sgpa |-> <<Loc(df, IdxMax(df, "SGPA"), "SGPA"), Loc(df, IdxMax(df, "SGPA"), "Semester")>>,
     min_sgpa |-> <<Loc(df, IdxMin(df, "SGPA"), "SGPA"), Loc(df, IdxMin(df, "SGPA"), "Semester")>>,
     avg_sgpa |-> <<SeqSum(Column(df, "SGPA")), Len(df.rows)>>,
     final_cgpa |-> FinalCgpa(df)]

NoFault == "none"

\* raised by idxmax on a Series without rows (line 217)
ArgmaxOfEmpty == "ValueError: attempt to get argmax of an empty sequence"

\* the expander as a whole: the figures, or the exception that ends the run
MetricsStage(df) ==
    IF Len(df.rows) = 0
    THEN [fault |-> ArgmaxOfEmpty, metrics |-> NoMetrics, stages |-> {"metrics", "idxmax"}]
    ELSE [fault |-> NoFault, metrics |-> ComputeMetrics(df),
          stages |-> {"metrics", "idxmax", "idxmin", "mean", "iloc"}]

-----------------------------------------------------------------------------
(* The script as a state machine *)

\* what a finished run leaves for the page
Outcome ==
    [pc |-> pc, data |-> data, errors |-> errors, fault |-> fault,
     directives |-> directives, metrics |-> metrics]

NoMemo ==
    [set |-> FALSE, later |-> FALSE, file |-> NoFile, view |-> "Combined",
     outcome |-> [pc |-> "input", data |-> Unbound, errors |-> <<>>, fault |-> NoFault,
                  directives |-> <<>>, metrics |-> NoMetrics]]

Terminal == {"done", "stopped", "crashed"}

\* the observer notes that a run on another input follows the noted one
Observe(f, v) ==
    memo' = [memo EXCEPT !.later = memo.set /\ (memo.later \/ f # memo.file \/ v # memo.view)]

\* variant: the page of the run before stays until it is overwritten
StartRunKeepsPage ==
    /\ pc' = "input"
    /\ stages' = {}
    /\ errors' = <<>>
    /\ fault' = NoFault
    /\ UNCHANGED <<data, directives, metrics>>

\* a run starts from the top of the script with nothing bound
StartRun ==
    /\ pc' = "input"
    /\ data' = Unbound
    /\ stages' = {}
    /\ errors' = <<>>
    /\ fault' = NoFault
    /\ directives' = <<>>
    /\ metrics' = NoMetrics

Init ==
    /\ build \in TiePolicies
    /\ uploaded_file = NoFile
    /\ view_option = "Combined"
    /\ pc = "input"
    /\ data = Unbound
    /\ stages = {}
    /\ errors = <<>>
    /\ fault = NoFault
    /\ directives = <<>>
    /\ metrics = NoMetrics
    /\ memo = NoMemo

\* the user puts file f into the uploader (lines 50-53)
Upload(f) ==
    /\ uploaded_file' = f
    /\ StartRun
    /\ Observe(f, view_option)
    /\ UNCHANGED <<build, view_option>>

\* the user clears the uploader
RemoveFile ==
    /\ uploaded_file # NoFile
    /\ uploaded_file' = NoFile
    /\ StartRun
    /\ Observe(NoFile, view_option)
    /\ UNCHANGED <<build, view_option>>

\* the user picks another entry of the selectbox (lines 105-108)
SelectView(v) ==
    /\ v # view_option
    /\ view_option' = v
    /\ StartRun
    /\ Observe(uploaded_file, v)
    /\ UNCHANGED <<build, uploaded_file>>

RunInput ==
    /\ pc = "input"
    /\ LET r == InputStage(uploaded_file)
       IN  /\ data' = r.data
           /\ errors' = r.errors
           /\ stages' = r.stages
           /\ pc' = IF r.stop THEN "stopped" ELSE "order"
    /\ UNCHANGED <<build, uploaded_file, view_option, fault, directives, metrics, memo>>

RunOrder ==
    /\ pc = "order"
    /\ data' = OrderStage(data, build)
    /\ stages' = stages \cup {"order"}
    /\ pc' = "view"
    /\ UNCHANGED <<build, uploaded_file, view_option, errors, fault, directives, metrics, memo>>

RunView ==
    /\ pc = "view"
    /\ directives' = ViewDispatch(view_option, data)
    /\ stages' = stages \cup {"view"}
    /\ pc' = "metrics"
    /\ UNCHANGED <<build, uploaded_file, view_option, data, errors, fault, metrics, memo>>

RunMetrics ==
    /\ pc = "metrics"
    /\ LET r == MetricsStage(data)
       IN  /\ metrics' = r.metrics
           /\ fault' = r.fault
           /\ stages' = stages \cup r.stages
           /\ pc' = IF r.fault = NoFault THEN "done" ELSE "crashed"
    /\ UNCHANGED <<build, uploaded_file, view_option, data, errors, directives, memo>>

\* the observer notes the finished run
Remember ==
    /\ pc \in Terminal
    /\ memo' = [set |-> TRUE, later |-> FALSE, file |-> uploaded_file,
                view |-> view_option, outcome |-> Outcome]
    /\ UNCHANGED <<build, uploaded_file, view_option, cycle>>

Script == RunInput \/ RunOrder \/ RunView \/ RunMetrics

\* a file is replaced by removing it and uploading the next one
Next ==
    \/ uploaded_file = NoFile /\ \E f \in Files : Upload(f)
    \/ RemoveFile
    \/ \E v \in ViewOptions : SelectView(v)
    \/ Script

Spec == Init /\ [][Next]_vars

\* a smaller input domain, for properties that relate two runs
RowsH == {<<[txt |-> Sem(2)], 900, 0>>, <<[txt |-> Sem(1)], 800, 835>>}

FilesH ==
    {Csv(RequiredHeader, rows) : rows \in SeqsUpTo(RowsH, MaxRowsH)}
        \cup {Csv(RequiredHeader, <<<<[txt |-> Sem(2)], 900, 0>>, <<[txt |-> <<"X">>], 800, 835>>>>),
              Csv(Append(RequiredHeader, "Credits"), <<<<[num |-> 3], 900, 835, 4>>>>),
              Csv(<<"Semester", "SGPA">>, <<>>),
              Malformed}

NextH ==
    \/ \E f \in FilesH : Upload(f)
    \/ RemoveFile
    \/ \E v \in ViewOptions : SelectView(v)
    \/ Script
    \/ Remember

SpecH == Init /\ [][NextH]_vars

-----------------------------------------------------------------------------
(* Vocabulary of the properties *)

HasDigit(s) == \E k \in 1..Len(s) : s[k] \in Digits

\* the uploaded table parses and names the three required columns
ValidUpload ==
    /\ uploaded_file.kind = "csv"
    /\ \A c \in {"Semester", "SGPA", "CGPA"} : HasColumn(uploaded_file.header, c)

\* the uploaded table fails the input stage
InvalidUpload == uploaded_file.kind # "none" /\ ~ValidUpload

\* the (Semester, SGPA, CGPA) records of a frame, in row order
StoreRecords(df) ==
    [i \in 1..Len(df.rows) |->
        <<Cell(df, i, "Semester"), Cell(df, i, "SGPA"), Cell(df, i, "CGPA")>>]

\* the records the current run is given, in input order, labels as text
InputRecords ==
    IF uploaded_file.kind = "none"
    THEN SampleData.rows
    ELSE [i \in 1..Len(uploaded_file.rows) |->
             <<CellToStr(uploaded_file.rows[i][1]), uploaded_file.rows[i][2],
               uploaded_file.rows[i][3]>>]

\* the run is past the ordering stage
Ordered == pc \in {"view", "metrics", "done", "crashed"}

\* the integer a label stands for
LabelInt(label) == IntOf(StrExtract(label))

Count(s, x) == Cardinality({i \in 1..Len(s) : s[i] = x})

-----------------------------------------------------------------------------
(* C1 *)

\* C1: a run whose uploaded table cannot be parsed or lacks one of the columns
\* Semester, SGPA, CGPA surfaces one error and stops in the input stage: it
\* never coerces, orders, renders or computes metrics, and it uses neither the
\* sample set nor anything of an earlier run.
C1_InputErrorHalts ==
    (InvalidUpload /\ pc # "input") =>
        /\ pc = "stopped"
        /\ Len(errors) = 1
        /\ fault = NoFault
        /\ stages \cap {"sample", "coerce", "order", "view", "metrics"} = {}
        /\ directives = <<>>
        /\ metrics = NoMetrics
        /\ data.rows = uploaded_file.rows

C1_Witness ==
    /\ pc = "stopped"
    /\ uploaded_file.kind = "csv"
    /\ uploaded_file.header = <<"Semester", "SGPA", "cgpa">>
    /\ Len(uploaded_file.rows) = 1
    /\ errors = <<SchemaMessage>>

-----------------------------------------------------------------------------
(* C2 *)

EmptyDataError == "EmptyDataError"

\* C2: metrics on a store without records fail with the EmptyDataError guard,
\* before any of idxmax, idxmin, mean or the last-element read is attempted.
C2_EmptyDataGuard ==
    (pc \in {"done", "crashed"} /\ Len(data.rows) = 0) =>
        /\ fault = EmptyDataError
        /\ stages \cap {"idxmax", "idxmin", "mean", "iloc"} = {}

-----------------------------------------------------------------------------
(* C3 *)

\* C3: when some semester label holds no digit, the store after the ordering
\* stage is the input in its input order, nothing is reported as an error, and
\* the run goes on to render and to compute the metrics.
C3_FallbackKeepsOrder ==
    (ValidUpload /\ \E i \in 1..Len(InputRecords) : ~HasDigit(InputRecords[i][1])) =>
        /\ pc \notin {"stopped", "crashed"}
        /\ errors = <<>>
        /\ fault = NoFault
        /\ Ordered => StoreRecords(data) = InputRecords
        /\ pc = "done" => (Len(directives) = 1 /\ metrics.computed)

C3_Witness ==
    /\ pc = "done"
    /\ ValidUpload
    /\ Len(InputRecords) = 3
    /\ InputRecords[1][1] = Sem(2)
    /\ InputRecords[2][1] = <<"X">>
    /\ InputRecords[3][1] = Sem(1)

-----------------------------------------------------------------------------
(* C4 *)

\* C4: when every semester label holds a digit run, the store after the
\* ordering stage is the input sorted ascending by the integer of the first
\* digit run, rows of equal integer in their input order; an input already in
\* ascending order comes out as it went in.
C4_SortedStable ==
    (ValidUpload /\ Ordered /\ \A i \in 1..Len(InputRecords) : HasDigit(InputRecords[i][1])) =>
        LET S == StoreRecords(data)
            I == InputRecords
        IN  /\ \A i, j \in 1..Len(S) :
                   i < j => ~NumLess(LabelInt(S[j][1]), LabelInt(S[i][1]))
            /\ \E perm \in [1..Len(S) -> 1..Len(I)] :
                   /\ \A i \in 1..Len(S) : S[i] = I[perm[i]]
                   /\ \A i, j \in 1..Len(S) :
                          i < j => /\ perm[i] # perm[j]
                                   /\ LabelInt(S[i][1]) = LabelInt(S[j][1]) => perm[i] < perm[j]
            /\ (\A i, j \in 1..Len(I) : i < j => NumLess(LabelInt(I[i][1]), LabelInt(I[j][1])))
                   => S = I

-----------------------------------------------------------------------------
(* C5 *)

\* C5: for every input that passes the input stage, the store after the
\* ordering stage holds the input records, each as many times as the input
\* does: none dropped, none duplicated, none with its values mixed.
C5_Permutation ==
    (~InvalidUpload /\ Ordered) =>
        LET S == StoreRecords(data)
            I == InputRecords
        IN  /\ Len(S) = Len(I)
            /\ \A i \in 1..Len(I) : Count(S, I[i]) = Count(I, I[i])

C5_Witness ==
    /\ pc = "done"
    /\ ValidUpload
    /\ Len(InputRecords) = 3
    /\ StoreRecords(data) # InputRecords
    /\ InputRecords[1][1] = InputRecords[3][1]

-----------------------------------------------------------------------------
(* C6 *)

\* C6: on a store with records, the highest (lowest) SGPA figure is the SGPA
\* and the label of the first record, in store order, whose SGPA is the
\* maximum (minimum) of the store, on the sorted path and on the fallback path.
C6_FirstExtreme ==
    pc = "done" =>
        LET S == StoreRecords(data)
        IN  /\ \E i \in 1..Len(S) :
                   /\ \A j \in 1..Len(S) : S[j][2] <= S[i][2]
                   /\ \A j \in 1..(i - 1) : S[j][2] < S[i][2]
                   /\ metrics.max_sgpa = <<S[i][2], S[i][1]>>
            /\ \E i \in 1..Len(S) :
                   /\ \A j \in 1..Len(S) : S[j][2] >= S[i][2]
                   /\ \A j \in 1..(i - 1) : S[j][2] > S[i][2]
                   /\ metrics.min_sgpa = <<S[i][2], S[i][1]>>

\* SGPA 8.0, 9.0, 9.0 in store order, after a sort that moved rows
C6_Witness ==
    /\ pc = "done"
    /\ ValidUpload
    /\ Len(data.rows) = 3
    /\ StoreRecords(data) # InputRecords
    /\ Column(data, "SGPA") = <<800, 900, 900>>
    /\ Cell(data, 2, "Semester") # Cell(data, 3, "Semester")
    /\ metrics.max_sgpa = <<900, Cell(data, 2, "Semester")>>

-----------------------------------------------------------------------------
(* C7 *)

\* every label of the input converts to a 64-bit integer
AllLabelsCast ==
    \A i \in 1..Len(InputRecords) :
        /\ HasDigit(InputRecords[i][1])
        /\ ~NumLess(Int64Max, LabelInt(InputRecords[i][1]))

\* C7: the final CGPA figure is the CGPA and the label of the last record of
\* the store, whatever its value: a record of greatest semester integer when
\* the sort applied, the last input row when it did not.
C7_StrictLast ==
    pc = "done" =>
        LET S == StoreRecords(data)
            n == Len(S)
        IN  /\ metrics.final_cgpa = <<S[n][3], S[n][1]>>
            /\ IF AllLabelsCast
               THEN \A j \in 1..n : ~NumLess(LabelInt(S[n][1]), LabelInt(S[j][1]))
               ELSE S[n] = InputRecords[n]

\* the last record holds CGPA zero, an earlier one does not, and the sort moved
\* the last record there
C7_Witness ==
    /\ pc = "done"
    /\ ValidUpload
    /\ AllLabelsCast
    /\ Len(data.rows) = 3
    /\ StoreRecords(data)[3] # InputRecords[3]
    /\ Cell(data, 1, "CGPA") > 0
    /\ metrics.final_cgpa = <<0, Sem(10)>>

-----------------------------------------------------------------------------
(* C8 *)

RECURSIVE LastPositive(_, _)
LastPositive(S, n) ==
    IF n = 0 THEN 0 ELSE IF S[n][3] > 0 THEN n ELSE LastPositive(S, n - 1)

\* the last-nonzero figure of a store: CGPA and label of the last record with
\* a positive CGPA, or (0.0, "N/A")
LastNonzeroFinal(S) ==
    IF LastPositive(S, Len(S)) = 0
    THEN <<0, <<"N", "/", "A">>>>
    ELSE <<S[LastPositive(S, Len(S))][3], S[LastPositive(S, Len(S))][1]>>

\* the final-CGPA figures the expander reports
FinalCgpaFigures == {metrics.final_cgpa}

\* C8: the metrics report the last-nonzero final CGPA of the store as well.
C8_LastNonzeroSupported ==
    pc = "done" => LastNonzeroFinal(StoreRecords(data)) \in FinalCgpaFigures

-----------------------------------------------------------------------------
(* C9 *)

\* C9: a finished run on the same uploaded content and the same view as a
\* noted earlier run leaves the same store, messages, directive and metrics,
\* whatever ran in between; a run starts with nothing of the run before it,
\* and the helper column SemIndex is never part of the store.
C9_FunctionOfInput ==
    /\ (memo.set /\ pc \in Terminal /\ memo.file = uploaded_file /\ memo.view = view_option)
           => memo.outcome = Outcome
    /\ pc = "input" =>
           (data = Unbound /\ directives = <<>> /\ metrics = NoMetrics /\ errors = <<>>)
    /\ ~HasColumn(data.columns, "SemIndex")

\* the same input again, after a run on another input
C9_Witness ==
    /\ memo.set
    /\ memo.later
    /\ pc = "done"
    /\ memo.file = uploaded_file
    /\ memo.view = view_option
    /\ Len(data.rows) = 2
    /\ StoreRecords(data) # InputRecords

-----------------------------------------------------------------------------
(* C10 *)

Series(d) == {d.what.layers[k][2] : k \in 1..Len(d.what.layers)}

\* the directive the view name asks for
DirectiveFits(d, view) ==
    CASE view = "Combined" ->
           d.call = "altair_chart" /\ Series(d) = {"SGPA", "CGPA"} /\ d.what.y_scale = "shared"
             /\ StoreRecords(d.what.frame) = StoreRecords(data)
      [] view = "Only SGPA" ->
           d.call = "altair_chart" /\ d.what.layers = << <<"line", "SGPA">> >>
             /\ StoreRecords(d.what.frame) = StoreRecords(data)
      [] view = "Only CGPA" ->
           d.call = "altair_chart" /\ d.what.layers = << <<"line", "CGPA">> >>
             /\ StoreRecords(d.what.frame) = StoreRecords(data)
      [] view = "Data Table" ->
           d.call = "dataframe" /\ d.what.layers = <<>>
             /\ d.what.frame.rows = StoreRecords(data)
      [] OTHER -> FALSE

C10_State ==
    /\ pc \in {"metrics", "done", "crashed"} =>
           (Len(directives) = 1 /\ DirectiveFits(directives[1], view_option))
    /\ pc = "stopped" => directives = <<>>
    /\ ViewDispatch("Histogram", data) = <<>>
    /\ (memo.set /\ pc \in {"done", "crashed"} /\ memo.file = uploaded_file)
           => (memo.outcome.metrics = metrics /\ memo.outcome.fault = fault)

\* C10: a run that is not stopped by an input error issues exactly one
\* directive, the one its view name stands for (Combined: both series on a
\* shared axis; Only SGPA, Only CGPA: one line of that metric; Data Table: the
\* records in store order); a name outside the four issues none; the dispatch
\* leaves the store as it is, and the metrics are the same under every view.
C10_OneDirective ==
    /\ []C10_State
    /\ [][(pc = "view" /\ pc' = "metrics") => data' = data]_vars

\* the table view of a file noted under another view
C10_Witness ==
    /\ pc = "done"
    /\ view_option = "Data Table"
    /\ memo.set
    /\ memo.file = uploaded_file
    /\ memo.view = "Combined"
    /\ Len(data.rows) = 2
    /\ StoreRecords(data) # InputRecords

====
